---- MODULE Spec2Model ----
(***************************************************************************)
(* UserController of yanduoduo-server (src/unnamed/part_000): the request  *)
(* handlers getPhoneCode, register, login, resetPassword, refreshToken,    *)
(* uploadAvatar and exitLogin, each cut into steps at its awaits, running  *)
(* concurrently over the user table, the phone-code store and the clock.   *)
(* The collaborators (model, service, helper, validation rules) are not    *)
(* part of the controller's file and follow the specification's text.      *)
(***************************************************************************)
EXTENDS Integers, Sequences, FiniteSets

\* users: the user table, by phone; codes: the outstanding phone code of each
\* phone; nextToken: the next token generateToken issues; now: the clock;
\* req: the request held by each slot (its handler, position, inputs, locals,
\* responses and calls so far); consumedReg: per phone, the code and password
\* of the register call that created the user, until a new code is issued;
\* revoked: the tokens that have been cleared or replaced
VARIABLES users, codes, nextToken, now, req, consumedReg, revoked

vars == <<users, codes, nextToken, now, req, consumedReg, revoked>>

---------------------------------------------------------------------------
(* Bounds                                                                  *)

MaxInFlight == 2
MaxToken == 3
MaxTime == 2

(* Sample input values                                                     *)

None == "none"
Phones == {"13800000000", "13900000000"}
BadPhone == "138"
Codes == {"123456", "654321"}
Passwords == {"p1", "p2"}
Salts == {"k1", "k2"}
FileNames == {"a.png"}
Undefined == "undefined"

Slots == 1..MaxInFlight
NoToken == 0

---------------------------------------------------------------------------
(* Collaborators                                                           *)

\* ctx.model.User rows: the row of a phone, or NoUser
NoUser == [id |-> 0]

UserId(phone) == IF phone = "13800000000" THEN 1 ELSE 2

PhoneOfId(id) == CHOOSE p \in Phones : UserId(p) = id

\* helper.secretPassword: the signed password of a password under a salt
SignPassword(password, secret) == <<password, secret>>

\* service.user.createUser: the row of a new user
NewUser(phone, password, secret) ==
    [id |-> UserId(phone),
     password |-> SignPassword(password, secret),
     pwd_key |-> secret,
     avatar |-> <<>>,
     token |-> NoToken,
     token_expires_in |-> 0]

\* ctx.model.User.findByPhone
findByPhone(phone) == IF phone \in Phones THEN users[phone] ELSE NoUser

\* ctx.model.User.findOne({ where: { token } })
findOneByToken(token) ==
    IF \E p \in Phones : users[p].id # 0 /\ users[p].token = token
    THEN users[CHOOSE p \in Phones : users[p].id # 0 /\ users[p].token = token]
    ELSE NoUser

\* service.user.checkPassword
checkPassword(user, password) ==
    user.password = SignPassword(password, user.pwd_key)

\* service.user.checkPhoneCode: the answer, and the code store after it
\* (a code that is checked and found correct is invalidated)
checkPhoneCode(phone, code) ==
    phone \in Phones /\ codes[phone] # None /\ codes[phone] = code

CodesAfterCheck(phone, code) ==
    IF checkPhoneCode(phone, code) THEN [codes EXCEPT ![phone] = None] ELSE codes

\* the lifetime of a session token, in ticks of the clock
TokenTTL == 1

\* helper.isExpired
isExpired(t) == now > t

\* service.user.generateToken: the user table after it; the token is nextToken
UsersAfterGenerate(userId) ==
    [users EXCEPT ![PhoneOfId(userId)] =
        [@ EXCEPT !.token = nextToken, !.token_expires_in = now + TokenTTL]]

\* service.user.clearToken
UsersAfterClear(userId) ==
    [users EXCEPT ![PhoneOfId(userId)] = [@ EXCEPT !.token = NoToken]]

\* the tokens that were a user's and have been cleared or replaced, once the
\* token of userId is
RevokedAfter(userId) ==
    revoked \cup ({users[PhoneOfId(userId)].token} \ {NoToken})

\* validateRules.phone
ValidPhone(phone) == phone \in Phones

\* validateRules.registerForm: phone, code, password and rePassword are required
ValidRegisterForm(b) ==
    /\ ValidPhone(b.phone)
    /\ b.code # None
    /\ b.password # None
    /\ b.rePassword # None

\* validateRules.loginForm: phone is required, password and code are optional
ValidLoginForm(b) == ValidPhone(b.phone)

---------------------------------------------------------------------------
(* Requests                                                                *)

Fail(err) == [kind |-> "fail", err |-> err, data |-> <<>>]
Success(data) == [kind |-> "success", err |-> "", data |-> data]

IdleReq ==
    [h |-> "idle", pc |-> "idle", phone |-> None, code |-> None,
     password |-> None, rePassword |-> None, token |-> NoToken, userId |-> 0,
     user |-> NoUser, fileName |-> Undefined, resp |-> <<>>, calls |-> {},
     verified |-> FALSE, replay |-> FALSE, stale |-> FALSE, drained |-> FALSE]

\* no request has ended and is still held by the framework
Quiet == \A t \in Slots : req[t].pc \notin {"done", "threw"}

\* a request is taken by the lowest free slot
Free(s) ==
    /\ Quiet
    /\ req[s].h = "idle"
    /\ \A t \in Slots : t < s => req[t].h # "idle"

\* this.fail / this.success followed by a return
Respond(r, response) == [r EXCEPT !.pc = "done", !.resp = Append(@, response)]

Called(r, name) == [r EXCEPT !.calls = @ \cup {name}]

At(s, h, pc) == Quiet /\ req[s].h = h /\ req[s].pc = pc

Finished(s) == req[s].pc = "done"
Threw(s) == req[s].pc = "threw"

InPhones == {"13800000000", BadPhone}

Bodies ==
    [phone : InPhones, code : Codes \cup {None},
     password : Passwords, rePassword : Passwords]

WithBody(b) ==
    [IdleReq EXCEPT !.phone = b.phone, !.code = b.code,
                    !.password = b.password, !.rePassword = b.rePassword]

---------------------------------------------------------------------------
(* Initial state: a user table holding any users without a session, no     *)
(* phone code outstanding, no request in flight                            *)

Init ==
    /\ users \in [Phones -> {NoUser} \cup {NewUser(p, "p1", "k1") : p \in Phones}]
    /\ \A p \in Phones : users[p].id # 0 => users[p].id = UserId(p)
    /\ codes = [p \in Phones |-> None]
    /\ nextToken = 1
    /\ now = 0
    /\ req = [s \in Slots |-> IdleReq]
    /\ consumedReg = [p \in Phones |-> <<>>]
    /\ revoked = {}

---------------------------------------------------------------------------
(* getPhoneCode                                                            *)

\* lines 14-21
GetPhoneCodeEntry(phone) == IF ~ValidPhone(phone) THEN "invalidParam" ELSE "ok"

GetPhoneCodeStart(s) ==
    /\ Free(s)
    /\ \E phone \in InPhones :
         LET r == [IdleReq EXCEPT !.phone = phone, !.h = "getPhoneCode"] IN
         req' = [req EXCEPT ![s] =
                   IF GetPhoneCodeEntry(phone) = "ok"
                   THEN [r EXCEPT !.pc = "sendPhoneCode"]
                   ELSE Respond(r, Fail("invalidParam"))]
    /\ UNCHANGED <<users, codes, nextToken, now, consumedReg, revoked>>

\* lines 23-30: the code is sent and stored, or the service throws
GetPhoneCodeSend(s) ==
    /\ At(s, "getPhoneCode", "sendPhoneCode")
    /\ LET r == Called(req[s], "sendPhoneCode") IN
       \/ \E c \in Codes :
            /\ codes' = [codes EXCEPT ![r.phone] = c]
            /\ consumedReg' = [consumedReg EXCEPT ![r.phone] = <<>>]
            /\ req' = [req EXCEPT ![s] = Respond(r, Success(<<>>))]
       \/ /\ req' = [req EXCEPT ![s] = Respond(r, Fail("sendPhoneCode.err"))]
          /\ UNCHANGED <<codes, consumedReg, revoked>>
    /\ UNCHANGED <<users, nextToken, now, revoked>>

---------------------------------------------------------------------------
(* register                                                                *)

\* register without the comparison of password and rePassword
RegisterEntryNoConfirm(b) ==
    IF ~ValidRegisterForm(b) THEN "invalidParam" ELSE "ok"

\* lines 37-46
RegisterEntry(b) ==
    IF ~ValidRegisterForm(b) THEN "invalidParam"
    ELSE IF b.password # b.rePassword THEN "invalidParam"
    ELSE "ok"

\* register going on whatever the code check answers
RegisterAfterCodeIgnored(isCodeCorrect) == "ok"

\* lines 48-51
RegisterAfterCode(isCodeCorrect) ==
    IF ~isCodeCorrect THEN "phoneCode.errorCode" ELSE "ok"

\* lines 52-55
RegisterAfterFind(user) ==
    IF user.id # 0 THEN "register.registered" ELSE "ok"

RegisterStart(s) ==
    /\ Free(s)
    /\ \E b \in Bodies :
         LET r == [WithBody(b) EXCEPT !.h = "register"] IN
         req' = [req EXCEPT ![s] =
                   IF RegisterEntry(b) = "ok"
                   THEN [r EXCEPT !.pc = "checkPhoneCode"]
                   ELSE Respond(r, Fail(RegisterEntry(b)))]
    /\ UNCHANGED <<users, codes, nextToken, now, consumedReg, revoked>>

RegisterCheckCode(s) ==
    /\ At(s, "register", "checkPhoneCode")
    /\ LET r0 == Called(req[s], "checkPhoneCode")
           r == [r0 EXCEPT !.replay =
                    consumedReg[r0.phone] = <<r0.code, r0.password>>]
           out == RegisterAfterCode(checkPhoneCode(r.phone, r.code))
       IN  /\ codes' = CodesAfterCheck(r.phone, r.code)
           /\ req' = [req EXCEPT ![s] =
                        IF out = "ok" THEN [r EXCEPT !.pc = "findByPhone"]
                        ELSE Respond(r, Fail(out))]
    /\ UNCHANGED <<users, nextToken, now, consumedReg, revoked>>

RegisterFind(s) ==
    /\ At(s, "register", "findByPhone")
    /\ LET r == Called(req[s], "findByPhone")
           out == RegisterAfterFind(findByPhone(r.phone))
       IN  req' = [req EXCEPT ![s] =
                     IF out = "ok" THEN [r EXCEPT !.pc = "createUser"]
                     ELSE Respond(r, Fail(out))]
    /\ UNCHANGED <<users, codes, nextToken, now, consumedReg, revoked>>

\* lines 57-62: the user table refuses a second row for a phone (the
\* insert throws and the handler ends without a response of its own)
RegisterCreate(s) ==
    /\ At(s, "register", "createUser")
    /\ LET r == Called(req[s], "createUser") IN
       IF users[r.phone].id # 0
          THEN /\ req' = [req EXCEPT ![s] = [r EXCEPT !.pc = "threw"]]
               /\ UNCHANGED <<users, consumedReg>>
          ELSE \E k \in Salts :
                 LET u == NewUser(r.phone, r.password, k) IN
                 /\ users' = [users EXCEPT ![r.phone] = u]
                 /\ consumedReg' = [consumedReg EXCEPT ![r.phone] =
                                     IF codes[r.phone] = None
                                     THEN <<r.code, r.password>> ELSE <<>>]
                 /\ req' = [req EXCEPT ![s] =
                              Respond(r, Success(<<u.id>>))]
    /\ UNCHANGED <<codes, nextToken, now, revoked>>

---------------------------------------------------------------------------
(* login                                                                   *)

SessionLogins ==
    [phone : Phones, code : {None}, password : {"p1"}]

LoginBodies ==
    [phone : InPhones, code : Codes \cup {None},
     password : Passwords \cup {None}]

\* a value a JavaScript condition takes as true
Truthy(v) == v # None

\* lines 69-75
LoginEntry(b) == IF ~ValidLoginForm(b) THEN "invalidParam" ELSE "ok"

\* login going on whatever checkPassword answers
LoginAfterFindAnyPassword(user, password, code) ==
    IF user.id = 0 THEN "login.unRegistered"
    ELSE IF Truthy(password) THEN "generateToken"
    ELSE IF Truthy(code) THEN "checkPhoneCode"
    ELSE "generateToken"

\* lines 78-98: where the handler goes once the user row is read
LoginAfterFind(user, password, code) ==
    IF user.id = 0 THEN "login.unRegistered"
    ELSE IF Truthy(password)
         THEN IF ~checkPassword(user, password) THEN "login.passwordError"
              ELSE "generateToken"
    ELSE IF Truthy(code) THEN "checkPhoneCode"
    ELSE "generateToken"

\* lines 93-97
LoginAfterCode(isCodeCorrect) ==
    IF ~isCodeCorrect THEN "phoneCode.errorCode" ELSE "generateToken"

LoginStart(s, B) ==
    /\ Free(s)
    /\ \E b \in B :
         LET r == [IdleReq EXCEPT !.h = "login", !.phone = b.phone,
                                  !.code = b.code, !.password = b.password] IN
         req' = [req EXCEPT ![s] =
                   IF LoginEntry(b) = "ok"
                   THEN [r EXCEPT !.pc = "findByPhone"]
                   ELSE Respond(r, Fail(LoginEntry(b)))]
    /\ UNCHANGED <<users, codes, nextToken, now, consumedReg, revoked>>

LoginFind(s) ==
    /\ At(s, "login", "findByPhone")
    /\ LET user == findByPhone(req[s].phone)
           asked == user.id # 0 /\ Truthy(req[s].password)
           r0 == [Called(req[s], "findByPhone") EXCEPT !.userId = user.id]
           r == IF asked
                THEN [Called(r0, "checkPassword") EXCEPT
                         !.verified = checkPassword(user, r0.password)]
                ELSE r0
           out == LoginAfterFind(user, r.password, r.code)
       IN  req' = [req EXCEPT ![s] =
                     IF out \in {"generateToken", "checkPhoneCode"}
                     THEN [r EXCEPT !.pc = out]
                     ELSE Respond(r, Fail(out))]
    /\ UNCHANGED <<users, codes, nextToken, now, consumedReg, revoked>>

LoginCheckCode(s) ==
    /\ At(s, "login", "checkPhoneCode")
    /\ LET isCodeCorrect == checkPhoneCode(req[s].phone, req[s].code)
           r == [Called(req[s], "checkPhoneCode") EXCEPT !.verified = isCodeCorrect]
           out == LoginAfterCode(isCodeCorrect)
       IN  /\ codes' = CodesAfterCheck(r.phone, r.code)
           /\ req' = [req EXCEPT ![s] =
                        IF out = "generateToken" THEN [r EXCEPT !.pc = out]
                        ELSE Respond(r, Fail(out))]
    /\ UNCHANGED <<users, nextToken, now, consumedReg, revoked>>

\* lines 100-102
LoginGenerate(s) ==
    /\ At(s, "login", "generateToken")
    /\ nextToken <= MaxToken
    /\ users' = UsersAfterGenerate(req[s].userId)
    /\ revoked' = RevokedAfter(req[s].userId)
    /\ nextToken' = nextToken + 1
    /\ req' = [req EXCEPT ![s] =
                 Respond(Called(req[s], "generateToken"), Success(<<nextToken>>))]
    /\ UNCHANGED <<codes, now, consumedReg>>

---------------------------------------------------------------------------
(* resetPassword                                                           *)

\* lines 109-118
ResetEntry(b) ==
    IF ~ValidRegisterForm(b) THEN "invalidParam"
    ELSE IF b.password # b.rePassword THEN "invalidParam"
    ELSE "ok"

\* lines 120-123
ResetAfterFind(user) == IF user.id = 0 THEN "login.unRegistered" ELSE "ok"

\* lines 124-127
ResetAfterCode(isCodeCorrect) ==
    IF ~isCodeCorrect THEN "phoneCode.errorCode" ELSE "ok"

\* resetPassword without the assignment of user.pwd_key
ResetAssignNoKey(user, password, secret) ==
    [user EXCEPT !.password = SignPassword(password, secret)]

\* lines 128-130: the row held by the handler, with its new key and password
ResetAssign(user, password, secret) ==
    [user EXCEPT !.pwd_key = secret, !.password = SignPassword(password, secret)]

\* line 131, user.save(): the fields the handler changed are written
ResetSaved(row, user) ==
    [row EXCEPT !.pwd_key = user.pwd_key, !.password = user.password]

ResetStart(s) ==
    /\ Free(s)
    /\ \E b \in Bodies :
         LET r == [WithBody(b) EXCEPT !.h = "resetPassword"] IN
         req' = [req EXCEPT ![s] =
                   IF ResetEntry(b) = "ok"
                   THEN [r EXCEPT !.pc = "findByPhone"]
                   ELSE Respond(r, Fail(ResetEntry(b)))]
    /\ UNCHANGED <<users, codes, nextToken, now, consumedReg, revoked>>

ResetFind(s) ==
    /\ At(s, "resetPassword", "findByPhone")
    /\ LET r == [Called(req[s], "findByPhone") EXCEPT !.user = findByPhone(req[s].phone)]
           out == ResetAfterFind(r.user)
       IN  req' = [req EXCEPT ![s] =
                     IF out = "ok" THEN [r EXCEPT !.pc = "checkPhoneCode"]
                     ELSE Respond(r, Fail(out))]
    /\ UNCHANGED <<users, codes, nextToken, now, consumedReg, revoked>>

ResetCheckCode(s) ==
    /\ At(s, "resetPassword", "checkPhoneCode")
    /\ LET r == Called(req[s], "checkPhoneCode")
           out == ResetAfterCode(checkPhoneCode(r.phone, r.code))
       IN  /\ codes' = CodesAfterCheck(r.phone, r.code)
           /\ IF out = "ok"
              THEN \E k \in Salts :
                     req' = [req EXCEPT ![s] =
                               [r EXCEPT !.pc = "save",
                                         !.user = ResetAssign(r.user, r.password, k)]]
              ELSE req' = [req EXCEPT ![s] = Respond(r, Fail(out))]
    /\ UNCHANGED <<users, nextToken, now, consumedReg, revoked>>

\* lines 131-133
ResetSave(s) ==
    /\ At(s, "resetPassword", "save")
    /\ users' = [users EXCEPT ![req[s].phone] = ResetSaved(@, req[s].user)]
    /\ req' = [req EXCEPT ![s] = Respond(Called(req[s], "save"), Success(<<>>))]
    /\ UNCHANGED <<codes, nextToken, now, consumedReg, revoked>>

---------------------------------------------------------------------------
(* refreshToken                                                            *)

\* lines 140-143
RefreshEntry(token) == IF token = NoToken THEN "token.error" ELSE "ok"

\* refreshToken without the test of the expiry
RefreshAfterFindNoExpiry(user) ==
    IF user.id = 0 THEN "token.error" ELSE "generateToken"

\* lines 151-156
RefreshAfterFind(user) ==
    IF user.id = 0 THEN "token.error"
    ELSE IF isExpired(user.token_expires_in) THEN "token.expired"
    ELSE "generateToken"

RefreshStart(s) ==
    /\ Free(s)
    /\ \E token \in 0..MaxToken :
         LET r == [IdleReq EXCEPT !.h = "refreshToken", !.token = token,
                                  !.stale = token \in revoked] IN
         req' = [req EXCEPT ![s] =
                   IF RefreshEntry(token) = "ok"
                   THEN [r EXCEPT !.pc = "findOne"]
                   ELSE Respond(r, Fail(RefreshEntry(token)))]
    /\ UNCHANGED <<users, codes, nextToken, now, consumedReg, revoked>>

RefreshFind(s) ==
    /\ At(s, "refreshToken", "findOne")
    /\ LET user == findOneByToken(req[s].token)
           r == [Called(req[s], "findOne") EXCEPT !.userId = user.id]
           out == RefreshAfterFind(user)
       IN  req' = [req EXCEPT ![s] =
                     IF out = "generateToken" THEN [r EXCEPT !.pc = out]
                     ELSE Respond(r, Fail(out))]
    /\ UNCHANGED <<users, codes, nextToken, now, consumedReg, revoked>>

\* lines 158-161
RefreshGenerate(s) ==
    /\ At(s, "refreshToken", "generateToken")
    /\ nextToken <= MaxToken
    /\ users' = UsersAfterGenerate(req[s].userId)
    /\ revoked' = RevokedAfter(req[s].userId)
    /\ nextToken' = nextToken + 1
    /\ req' = [req EXCEPT ![s] =
                 Respond(Called(req[s], "generateToken"), Success(<<nextToken>>))]
    /\ UNCHANGED <<codes, now, consumedReg>>

---------------------------------------------------------------------------
(* uploadAvatar                                                            *)

\* ctx.userId: the session middleware names a user of the table
UserIds == {users[p].id : p \in {q \in Phones : users[q].id # 0}}

\* line 201
AvatarUrl(fileName) == <<"/public/uploads/avatar/", fileName>>

\* lines 195-199: what the catch block leaves behind
UploadCaught(r) ==
    [r EXCEPT !.drained = TRUE, !.resp = Append(@, Fail("uploadError")),
              !.pc = "update"]

\* lines 171-180, up to the await of getFileStream
UploadStart(s) ==
    /\ Free(s)
    /\ \E userId \in UserIds :
         req' = [req EXCEPT ![s] =
                   [IdleReq EXCEPT !.h = "uploadAvatar", !.userId = userId,
                                   !.pc = "getFileStream"]]
    /\ UNCHANGED <<users, codes, nextToken, now, consumedReg, revoked>>

\* lines 180-186: the stream is handed over, or getFileStream throws
UploadStream(s) ==
    /\ At(s, "uploadAvatar", "getFileStream")
    /\ LET r == Called(req[s], "getFileStream") IN
       \/ req' = [req EXCEPT ![s] = [r EXCEPT !.pc = "toArray"]]
       \/ req' = [req EXCEPT ![s] = Respond(r, Fail("uploadError.code"))]
    /\ UNCHANGED <<users, codes, nextToken, now, consumedReg, revoked>>

\* line 190: the stream is read to its end, or reading throws
UploadBuffer(s) ==
    /\ At(s, "uploadAvatar", "toArray")
    /\ LET r == Called(req[s], "toArray") IN
       \/ req' = [req EXCEPT ![s] = [r EXCEPT !.pc = "saveAvatar"]]
       \/ req' = [req EXCEPT ![s] = [r EXCEPT !.pc = "sendToWormhole"]]
    /\ UNCHANGED <<users, codes, nextToken, now, consumedReg, revoked>>

\* lines 191-194: the store names the file, or throws
UploadSave(s) ==
    /\ At(s, "uploadAvatar", "saveAvatar")
    /\ LET r == Called(req[s], "saveAvatar") IN
       \/ \E f \in FileNames :
            req' = [req EXCEPT ![s] = [r EXCEPT !.pc = "update", !.fileName = f]]
       \/ req' = [req EXCEPT ![s] = [r EXCEPT !.pc = "sendToWormhole"]]
    /\ UNCHANGED <<users, codes, nextToken, now, consumedReg, revoked>>

\* lines 195-199
UploadDrain(s) ==
    /\ At(s, "uploadAvatar", "sendToWormhole")
    /\ req' = [req EXCEPT ![s] = UploadCaught(Called(req[s], "sendToWormhole"))]
    /\ UNCHANGED <<users, codes, nextToken, now, consumedReg, revoked>>

\* lines 201-213
UploadUpdate(s) ==
    /\ At(s, "uploadAvatar", "update")
    /\ LET r == Called(req[s], "update")
           avatarUrl == AvatarUrl(r.fileName)
       IN  /\ users' = [users EXCEPT ![PhoneOfId(r.userId)] =
                          [@ EXCEPT !.avatar = avatarUrl]]
           /\ req' = [req EXCEPT ![s] = Respond(r, Success(<<avatarUrl>>))]
    /\ UNCHANGED <<codes, nextToken, now, consumedReg, revoked>>

---------------------------------------------------------------------------
(* exitLogin                                                               *)

\* lines 217-219, up to the await
ExitStart(s) ==
    /\ Free(s)
    /\ \E userId \in UserIds :
         req' = [req EXCEPT ![s] =
                   [IdleReq EXCEPT !.h = "exitLogin", !.userId = userId,
                                   !.pc = "clearToken"]]
    /\ UNCHANGED <<users, codes, nextToken, now, consumedReg, revoked>>

\* exitLogin answering without clearing the token
ExitClearNoClear(s) ==
    /\ At(s, "exitLogin", "clearToken")
    /\ revoked' = RevokedAfter(req[s].userId)
    /\ req' = [req EXCEPT ![s] = Respond(Called(req[s], "clearToken"), Success(<<>>))]
    /\ UNCHANGED <<users, codes, nextToken, now, consumedReg>>

\* lines 219-222
ExitClear(s) ==
    /\ At(s, "exitLogin", "clearToken")
    /\ users' = UsersAfterClear(req[s].userId)
    /\ revoked' = RevokedAfter(req[s].userId)
    /\ req' = [req EXCEPT ![s] = Respond(Called(req[s], "clearToken"), Success(<<>>))]
    /\ UNCHANGED <<codes, nextToken, now, consumedReg>>

---------------------------------------------------------------------------
(* the environment                                                         *)

\* a phone code expires
ExpireCode ==
    /\ Quiet
    /\ \E p \in Phones : codes[p] # None /\ codes' = [codes EXCEPT ![p] = None]
    /\ UNCHANGED <<users, nextToken, now, req, consumedReg, revoked>>

\* the clock
Tick ==
    /\ Quiet
    /\ now < MaxTime
    /\ now' = now + 1
    /\ UNCHANGED <<users, codes, nextToken, req, consumedReg, revoked>>

\* the framework is done with a request that returned or threw
Recycle(s) ==
    /\ (Finished(s) \/ Threw(s))
    /\ req' = [req EXCEPT ![s] = IdleReq]
    /\ UNCHANGED <<users, codes, nextToken, now, consumedReg, revoked>>

---------------------------------------------------------------------------
(* registration: getPhoneCode and register requests, interleaved           *)

NextRegister ==
    \/ \E s \in Slots : Recycle(s)
    \/ \E s \in Slots : GetPhoneCodeStart(s)
    \/ \E s \in Slots : GetPhoneCodeSend(s)
    \/ \E s \in Slots : RegisterStart(s)
    \/ \E s \in Slots : RegisterCheckCode(s)
    \/ \E s \in Slots : RegisterFind(s)
    \/ \E s \in Slots : RegisterCreate(s)
    \/ ExpireCode

SpecRegister == Init /\ [][NextRegister]_vars

---------------------------------------------------------------------------
(* sessions: login, refreshToken and exitLogin requests, interleaved       *)

NextLogin ==
    \/ \E s \in Slots : Recycle(s)
    \/ \E s \in Slots : GetPhoneCodeStart(s)
    \/ \E s \in Slots : GetPhoneCodeSend(s)
    \/ \E s \in Slots : LoginStart(s, LoginBodies)
    \/ \E s \in Slots : LoginFind(s)
    \/ \E s \in Slots : LoginCheckCode(s)
    \/ \E s \in Slots : LoginGenerate(s)

SpecLogin == Init /\ [][NextLogin]_vars

NextSession ==
    \/ \E s \in Slots : Recycle(s)
    \/ \E s \in Slots : LoginStart(s, SessionLogins)
    \/ \E s \in Slots : LoginFind(s)
    \/ \E s \in Slots : LoginGenerate(s)
    \/ \E s \in Slots : RefreshStart(s)
    \/ \E s \in Slots : RefreshFind(s)
    \/ \E s \in Slots : RefreshGenerate(s)
    \/ \E s \in Slots : ExitStart(s)
    \/ \E s \in Slots : ExitClear(s)

SpecSession == Init /\ [][NextSession]_vars

(* token expiry: login and refreshToken requests, interleaved, and the     *)
(* clock                                                                   *)

NextExpiry ==
    \/ \E s \in Slots : Recycle(s)
    \/ \E s \in Slots : LoginStart(s, SessionLogins)
    \/ \E s \in Slots : LoginFind(s)
    \/ \E s \in Slots : LoginGenerate(s)
    \/ \E s \in Slots : RefreshStart(s)
    \/ \E s \in Slots : RefreshFind(s)
    \/ \E s \in Slots : RefreshGenerate(s)
    \/ Tick

SpecExpiry == Init /\ [][NextExpiry]_vars

(* password reset: getPhoneCode and resetPassword requests, interleaved    *)

NextReset ==
    \/ \E s \in Slots : Recycle(s)
    \/ \E s \in Slots : GetPhoneCodeStart(s)
    \/ \E s \in Slots : GetPhoneCodeSend(s)
    \/ \E s \in Slots : ResetStart(s)
    \/ \E s \in Slots : ResetFind(s)
    \/ \E s \in Slots : ResetCheckCode(s)
    \/ \E s \in Slots : ResetSave(s)
    \/ ExpireCode

SpecReset == Init /\ [][NextReset]_vars

(* avatars: uploadAvatar requests, interleaved                             *)

NextAvatar ==
    \/ \E s \in Slots : Recycle(s)
    \/ \E s \in Slots : UploadStart(s)
    \/ \E s \in Slots : UploadStream(s)
    \/ \E s \in Slots : UploadBuffer(s)
    \/ \E s \in Slots : UploadSave(s)
    \/ \E s \in Slots : UploadDrain(s)
    \/ \E s \in Slots : UploadUpdate(s)

SpecAvatar == Init /\ [][NextAvatar]_vars

---------------------------------------------------------------------------
(* Properties                                                              *)

Body(r) == [phone |-> r.phone, code |-> r.code, password |-> r.password,
            rePassword |-> r.rePassword]

\* the slot whose request takes the step
Acts(s) == req'[s] # req[s]

\* C1: in uploadAvatar, when buffering the stream or saveAvatar fails (the
\* catch block runs), no User.update of the avatar is performed for the request
C1_FailureLeavesAvatar ==
    \A s \in Slots :
        (req[s].h = "uploadAvatar" /\ req[s].drained) => "update" \notin req[s].calls

\* C2: registration never creates a duplicate user: createUser is never
\* performed for a phone that already has a user, whatever the interleaving
C2_NoSecondCreateUser ==
    \A s \in Slots :
        (req[s].h = "register" /\ "createUser" \in req[s].calls) => ~Threw(s)

\* C3 as stated: after a successful register, a second identical call yields
\* the registered error
C3_SecondCallRegistered ==
    \A s \in Slots :
        (req[s].h = "register" /\ Finished(s) /\ req[s].replay)
            => req[s].resp = <<Fail("register.registered")>>

\* C3 as amended: after a successful register that left no code outstanding, a
\* second identical call made before a new code is issued yields the phone-code
\* error, and it looks up and creates no user
C3_SecondCallCodeError ==
    \A s \in Slots :
        (req[s].h = "register" /\ req[s].replay)
            => /\ Finished(s)
               /\ req[s].resp = <<Fail("phoneCode.errorCode")>>
               /\ req[s].calls = {"checkPhoneCode"}
               /\ users[req[s].phone].id # 0

C3_Witness ==
    \E s \in Slots :
        /\ req[s].h = "register" /\ Finished(s) /\ req[s].replay
        /\ users[req[s].phone].password = SignPassword(req[s].password, users[req[s].phone].pwd_key)

\* C4: a valid login for a registered phone that supplies a password answers
\* success with the token generateToken stored for that user when checkPassword
\* accepts, and passwordError without any generateToken when it rejects
C4_PasswordLogin ==
    \A s \in Slots :
        LET r == req[s] IN
        (r.h = "login" /\ ValidLoginForm(r) /\ Truthy(r.password)
                       /\ findByPhone(r.phone).id # 0)
            => IF checkPassword(users[r.phone], r.password)
               THEN Finished(s) =>
                        /\ "generateToken" \in r.calls
                        /\ users[r.phone].token # NoToken
                        /\ r.resp = <<Success(<<users[r.phone].token>>)>>
               ELSE /\ "generateToken" \notin r.calls
                    /\ r.pc # "generateToken"
                    /\ Finished(s) => r.resp = <<Fail("login.passwordError")>>

C4_Witness ==
    \E s \in Slots :
        LET r == req[s] IN
        /\ r.h = "login" /\ Finished(s) /\ Truthy(r.password)
        /\ ValidLoginForm(r) /\ findByPhone(r.phone).id # 0
        /\ checkPassword(users[r.phone], r.password)
        /\ r.resp = <<Success(<<users[r.phone].token>>)>>
        /\ "generateToken" \in r.calls

\* C5: refreshToken with a missing token, or one no user owns, answers the
\* token error, and with a token whose expiry has passed the expired error; in
\* these cases generateToken is not called and no user row changes
C5_RefreshRejects ==
    [][\A s \in Slots :
        LET r == req[s]
            owner == findOneByToken(r.token)
        IN
        /\ (req'[s].h = "refreshToken" /\ r.h = "idle" /\ req'[s].token = NoToken)
              => /\ req'[s].pc = "done"
                 /\ req'[s].resp = <<Fail("token.error")>>
                 /\ req'[s].calls = {}
                 /\ users' = users /\ nextToken' = nextToken
        /\ (r.h = "refreshToken" /\ r.pc = "findOne" /\ Acts(s) /\ owner.id = 0)
              => /\ req'[s].pc = "done"
                 /\ req'[s].resp = <<Fail("token.error")>>
                 /\ "generateToken" \notin req'[s].calls
                 /\ users' = users /\ nextToken' = nextToken
        /\ (r.h = "refreshToken" /\ r.pc = "findOne" /\ Acts(s) /\ owner.id # 0
                /\ now > owner.token_expires_in)
              => /\ req'[s].pc = "done"
                 /\ req'[s].resp = <<Fail("token.expired")>>
                 /\ "generateToken" \notin req'[s].calls
                 /\ users' = users /\ nextToken' = nextToken
      ]_vars

C5_Witness ==
    \E s \in Slots :
        /\ req[s].h = "refreshToken" /\ Finished(s)
        /\ req[s].resp = <<Fail("token.expired")>>
        /\ findOneByToken(req[s].token).id # 0

\* C6: resetPassword answers unRegistered for a phone without a user and the
\* phone-code error for a wrong code, changing no user row; a user's password
\* and pwd_key change only in the save of a request for that user's phone, and
\* then both are written, the password signed under the new key
C6_ResetPassword ==
    [][\A s \in Slots :
        LET r == req[s] IN
        (r.h = "resetPassword" /\ Acts(s)) =>
            /\ (r.pc = "findByPhone" /\ findByPhone(r.phone).id = 0)
                  => /\ req'[s].pc = "done"
                     /\ req'[s].resp = <<Fail("login.unRegistered")>>
                     /\ users' = users
            /\ (r.pc = "checkPhoneCode" /\ ~checkPhoneCode(r.phone, r.code))
                  => /\ req'[s].pc = "done"
                     /\ req'[s].resp = <<Fail("phoneCode.errorCode")>>
                     /\ users' = users
            /\ (users' # users)
                  => /\ r.pc = "save"
                     /\ "checkPhoneCode" \in r.calls
                     /\ users[r.phone].id # 0
                     /\ \A q \in Phones \ {r.phone} : users'[q] = users[q]
                     /\ users'[r.phone].password =
                            SignPassword(r.password, users'[r.phone].pwd_key)
                     /\ users'[r.phone] =
                            [users[r.phone] EXCEPT
                                !.password = users'[r.phone].password,
                                !.pwd_key = users'[r.phone].pwd_key]
      ]_vars

C6_Witness ==
    \E s \in Slots :
        /\ req[s].h = "resetPassword" /\ Finished(s)
        /\ req[s].resp = <<Success(<<>>)>>
        /\ users[req[s].phone].pwd_key = "k2"
        /\ users[req[s].phone].password = SignPassword("p2", "k2")

\* C7: a refreshToken made with a token that exitLogin has cleared, or that a
\* later login or refresh has replaced, answers the token error and never
\* calls generateToken
C7_RevokedTokenRefused ==
    \A s \in Slots :
        (req[s].h = "refreshToken" /\ req[s].stale)
            => /\ "generateToken" \notin req[s].calls
               /\ req[s].pc \in {"findOne", "done"}
               /\ Finished(s) => req[s].resp = <<Fail("token.error")>>

C7_Witness ==
    \E s \in Slots :
        /\ req[s].h = "refreshToken" /\ Finished(s) /\ req[s].stale
        /\ users[PhoneOfId(1)].id # 0 /\ users[PhoneOfId(1)].token = NoToken
        /\ req[s].token \in revoked

\* C8: a register request that fails the rules, or whose password differs
\* from rePassword, answers invalidParam before any collaborator is called
C8_InvalidRegister ==
    \A s \in Slots :
        LET r == req[s] IN
        (r.h = "register" /\ (~ValidRegisterForm(Body(r)) \/ r.password # r.rePassword))
            => /\ Finished(s)
               /\ r.resp = <<Fail("invalidParam")>>
               /\ r.calls = {}

C8_Witness ==
    \E s \in Slots :
        LET r == req[s] IN
        /\ r.h = "register" /\ Finished(s)
        /\ ValidRegisterForm(Body(r)) /\ r.password # r.rePassword
        /\ checkPhoneCode(r.phone, r.code)
        /\ users[r.phone].id = 0

\* C9: login calls generateToken only after checkPassword or checkPhoneCode
\* has answered true in the same request
C9_TokenOnlyAfterVerification ==
    \A s \in Slots :
        (req[s].h = "login" /\ "generateToken" \in req[s].calls) => req[s].verified

\* C10: a handler invocation that returns has produced exactly one response
C10_ExactlyOneResponse ==
    \A s \in Slots : Finished(s) => Len(req[s].resp) = 1

====
